---- MODULE Spec2Model ----
(***************************************************************************)
(* Model of reports.js: the BSE/NSE annual report downloader.              *)
(*                                                                         *)
(* JavaScript strings are modelled as sequences of one-character strings,  *)
(* so that parseInt, trim and the filename sanitisation are computed the   *)
(* way the code computes them.  The web pages, the network and the file    *)
(* system operations that can fail are the environment: every outcome the  *)
(* code distinguishes is chosen nondeterministically.                      *)
(***************************************************************************)
EXTENDS Integers, Sequences, FiniteSets, TLC

(* ------------------------------ bounds --------------------------------- *)

\* Longest name handed to the filename sanitisation on its own.
MaxLen == 4

\* Chunks of the body of one response.
MaxChunks == 1

\* Longest worklist (rows of companies.xlsx) explored.
MaxCompanies == 2

\* Table rows the two sites serve during one run, all pages together.
MaxRows == 2

\* Exceptions of the browser (a page call outside the awaited navigation
\* steps throws) and of the file system (statSync, writeFileSync, unlinkSync
\* or renameSync throws) during one run.
MaxFaults == 1

(* ------------------------- program constants --------------------------- *)

MinYear == 2009

MinZipSize == 1024

\* The status code downloadFileWithSpeed accepts.
StatusOk == 200

(* ------------------------------ strings -------------------------------- *)

Digits == {"0", "1", "2", "3", "4", "5", "6", "7", "8", "9"}

DigitVal ==
  ("0" :> 0) @@ ("1" :> 1) @@ ("2" :> 2) @@ ("3" :> 3) @@ ("4" :> 4) @@
  ("5" :> 5) @@ ("6" :> 6) @@ ("7" :> 7) @@ ("8" :> 8) @@ ("9" :> 9)

Whitespace == {" ", "\t", "\n"}

\* Results of parseInt: a number, or NaN.
Num(n) == [nan |-> FALSE, value |-> n]

NaN == [nan |-> TRUE, value |-> 0]

\* null and undefined where the code expects a string.
NULL == <<"null">>

\* The type of an NSE row whose href has no known extension (null).
NoType == "none"

RECURSIVE TrimStart(_)
TrimStart(s) ==
  IF s # <<>> /\ Head(s) \in Whitespace THEN TrimStart(Tail(s)) ELSE s

RECURSIVE TrimEnd(_)
TrimEnd(s) ==
  IF s # <<>> /\ s[Len(s)] \in Whitespace
  THEN TrimEnd(SubSeq(s, 1, Len(s) - 1))
  ELSE s

\* String.prototype.trim
Trim(s) == TrimEnd(TrimStart(s))

RECURSIVE LeadingDigits(_)
LeadingDigits(s) ==
  IF s # <<>> /\ Head(s) \in Digits
  THEN <<Head(s)>> \o LeadingDigits(Tail(s))
  ELSE <<>>

RECURSIVE DigitsValue(_)
DigitsValue(ds) ==
  IF ds = <<>> THEN 0
  ELSE 10 * DigitsValue(SubSeq(ds, 1, Len(ds) - 1)) + DigitVal[ds[Len(ds)]]

\* parseInt(s, 10): leading whitespace, an optional sign, then the longest
\* run of decimal digits; NaN when there is no digit.
ParseInt(s) ==
  LET t    == TrimStart(s)
      neg  == t # <<>> /\ Head(t) = "-"
      body == IF t # <<>> /\ Head(t) \in {"+", "-"} THEN Tail(t) ELSE t
      ds   == LeadingDigits(body)
  IN  IF ds = <<>> THEN NaN
      ELSE IF neg THEN Num(0 - DigitsValue(ds)) ELSE Num(DigitsValue(ds))

IsNaN(v) == v.nan

\* v < n and v >= n of JavaScript: both false for NaN.
NumLess(v, n) == ~v.nan /\ v.value < n

NumAtLeast(v, n) == ~v.nan /\ v.value >= n

\* The character class [\\/:"*?<>|] of the filename regular expression.
UnsafeChars == {"\\", "/", ":", "\"", "*", "?", "<", ">", "|"}

IsSafeChar(c) == c \notin UnsafeChars

\* Variant of Sanitize that trims before it removes the characters.
Sanitize_TrimFirst(name) == SelectSeq(Trim(name), IsSafeChar)

\* filename.replace(/[\\/:"*?<>|]+/g, '').trim()
Sanitize(name) == Trim(SelectSeq(name, IsSafeChar))

PdfExt == <<".", "p", "d", "f">>

ZipExt == <<".", "z", "i", "p">>

\* `${symbol}_${year}.pdf`
PdfName(symbol, year) == symbol \o <<"_">> \o year \o PdfExt

\* `${symbol}_${toYear}.${report.type}`
TypedName(symbol, year, type) ==
  symbol \o <<"_">> \o year \o (IF type = "zip" THEN ZipExt ELSE PdfExt)

(* ------------------------------ inputs --------------------------------- *)

\* Rows of the worklist as sheet_to_json yields them: the symbol cell (the
\* empty text for a row without one) and the company name cell.
RowPool ==
  { [symbol |-> <<>>,           name |-> "Void"],
    [symbol |-> <<" ">>,        name |-> ""],
    [symbol |-> <<" ", "A">>,   name |-> "Acme"],
    [symbol |-> <<"B", ":">>,   name |-> ""] }

RECURSIVE SeqsUpTo(_, _)
SeqsUpTo(S, n) ==
  IF n = 0 THEN {<<>>}
  ELSE LET shorter == SeqsUpTo(S, n - 1)
       IN  shorter \cup
           {Append(q, x) : q \in {r \in shorter : Len(r) = n - 1}, x \in S}

Worklists == SeqsUpTo(RowPool, MaxCompanies)

\* Texts of a year cell on either site, before they are trimmed.
YearTexts ==
  { <<"2", "0", "0", "8">>,
    <<" ", "2", "0", "0", "9">>,
    <<"-", "2", "0", "1", "0">>,
    <<"n", "/", "a">>,
    <<>> }

(* ------------------------------ ledger --------------------------------- *)

Msg(kind, arg) == [kind |-> kind, arg |-> arg]

\* Variant of AddError that stores the name of every call.
AddError_NameOverwritten(ce, symbol, name, message) ==
  [s \in DOMAIN ce \cup {symbol} |->
     IF s = symbol
     THEN [name   |-> name,
           errors |-> IF symbol \in DOMAIN ce
                      THEN Append(ce[symbol].errors, message)
                      ELSE <<message>>]
     ELSE ce[s]]

\* addError(symbol, name, message) applied to the ledger ce.
AddError(ce, symbol, name, message) ==
  IF symbol \in DOMAIN ce
  THEN [ce EXCEPT ![symbol].errors = Append(@, message)]
  ELSE [s \in DOMAIN ce \cup {symbol} |->
          IF s = symbol THEN [name |-> name, errors |-> <<message>>]
          ELSE ce[s]]

(* ------------------------ texts served by the sites -------------------- *)

UpperToLower ==
  ("P" :> "p") @@ ("D" :> "d") @@ ("F" :> "f") @@ ("Z" :> "z") @@ ("I" :> "i")

LowerChar(c) == IF c \in DOMAIN UpperToLower THEN UpperToLower[c] ELSE c

\* String.prototype.toLowerCase over the letters that occur in the texts.
ToLower(s) == [k \in 1..Len(s) |-> LowerChar(s[k])]

\* String.prototype.endsWith
EndsWith(s, suffix) ==
  /\ Len(s) >= Len(suffix)
  /\ SubSeq(s, Len(s) - Len(suffix) + 1, Len(s)) = suffix

\* A row of the BSE results table: number of cells, text of the year cell,
\* and the anchor of the second cell (none, or the scheme of its href).
BseRowKinds ==
  { [cells |-> 1, year |-> <<"2", "0", "0", "9">>, link |-> "https"],
    [cells |-> 2, year |-> <<"2", "0", "0", "9">>, link |-> "none"],
    [cells |-> 2, year |-> <<"2", "0", "0", "9">>, link |-> "http"] }
  \cup { [cells |-> 2, year |-> y, link |-> "https"] : y \in YearTexts }

\* hrefs of the fourth cell of an NSE row.
NseUrls ==
  { <<"u", ".", "z", "i", "p">>,
    <<"u", ".", "P", "D", "F">>,
    <<"u", ".", "h", "t", "m">> }

\* A row of the NSE table as the page holds it: text of the toYr cell (NULL
\* when the cell is missing) and href of the anchor (NULL when missing).
NseRawRows ==
  { [year |-> y, url |-> u] : y \in YearTexts, u \in NseUrls }
  \cup { [year |-> NULL, url |-> <<"u", ".", "z", "i", "p">>],
         [year |-> <<"2", "0", "0", "9">>, url |-> NULL] }

\* Names of the entries of a downloaded archive.
ZipEntryLists ==
  { <<>>,
    << <<"a", ".", "t", "x", "t">> >>,
    << <<"r", ".", "P", "D", "F">> >>,
    << <<"r", ".", "p", "d", "f">>, <<"a", ".", "t", "x", "t">> >> }

\* Sizes of a downloaded archive, around the 1 KiB guard.
ZipSizes == {MinZipSize - 1, MinZipSize}

(* ------------------------------- state --------------------------------- *)

VARIABLES
  data,           \* rows of the worklist (sheet_to_json)
  fileOk,         \* companies.xlsx can be read
  hasSymbolKey,   \* the first row has a 'symbol' column
  pc,             \* position of main
  idx,            \* index of the current worklist row
  company,        \* { symbol, name } of the current row
  companyErrors,  \* the ledger: symbol -> { name, errors }
  files,          \* files on disk
  bse,            \* locals of scrapeBseReports
  nse,            \* locals of scrapeNseAnnualReports
  served,         \* table rows served so far by the two sites
  faults,         \* browser and file system exceptions so far
  iter,           \* history: what happened in the current iteration
  attempted,      \* history: symbols handed to scrapeBseReports, in order
  fetched,        \* history: settled downloadFileWithSpeed calls of the iteration
  persisted,      \* history: documents written in the iteration
  extract,        \* history: the extractZipToPdf call of the last step
  output,         \* what the end of main wrote: the report or the summary
  xfer,           \* the downloadFileWithSpeed call in progress, step by step
  san             \* a name and what the filename sanitisation makes of it

vars ==
  << data, fileOk, hasSymbolKey, pc, idx, company, companyErrors, files,
     bse, nse, served, faults, iter, attempted, fetched, persisted, extract,
     output, xfer, san >>

NoCompany == [symbol |-> <<>>, name |-> ""]

BseIdle == [n |-> 0, i |-> 0, page |-> 0, downloadedAny |-> FALSE]

NseIdle == [left |-> 0, reportRows |-> <<>>, j |-> 0]

IterIdle ==
  [ symbol    |-> <<>>,
    bseRet    |-> "none",   \* value returned by scrapeBseReports
    bseOk     |-> FALSE,    \* a BSE download resolved
    nseCalled |-> FALSE,    \* scrapeNseAnnualReports was called
    nseRet    |-> "none",   \* value returned by scrapeNseAnnualReports
    nseOk     |-> FALSE,    \* an NSE download resolved
    shot      |-> "none",   \* the screenshot of the NSE catch: "ok", "failed"
    closeThrew |-> FALSE,   \* page.close() of the NSE catch threw
    ended     |-> "no" ]    \* "normal": end of try, "caught": main's catch

NoExtract ==
  [ called |-> FALSE, zip |-> <<>>, size |-> 0, opened |-> FALSE,
    wrote |-> FALSE, raised |-> FALSE, failure |-> "none" ]

FilePath(src, symbol, name) == [src |-> src, folder |-> symbol, name |-> name]

NoOutput == [kind |-> "none", rows |-> {}]

\* No downloadFileWithSpeed call is in progress.  promise: the state of the
\* promise the call returned, reason: why it was rejected; request,
\* response, file: the state of the ClientRequest, of the IncomingMessage
\* (status: its status code, 0 before it arrives) and of the write stream;
\* timer:
\* the speedInterval of the call is active; leaked: intervals of earlier
\* calls that are still active; stdout: the last line written to stdout;
\* year, filename: the locals of the caller's loop during the await.
XferIdle ==
  [ promise |-> "none", reason |-> "none", request |-> "none",
    status |-> 0, response |-> "none",
    file |-> "none", timer |-> FALSE, leaked |-> 0,
    downloadedBytes |-> 0, lastDownloadedBytes |-> 0, stdout |-> "none",
    year |-> <<>>, filename |-> <<>> ]

SanIdle == [name |-> <<>>, once |-> <<>>, twice |-> <<>>, step |-> 0]

Init ==
  /\ data \in Worklists
  /\ fileOk \in BOOLEAN
  /\ hasSymbolKey \in BOOLEAN
  /\ pc = "start"
  /\ idx = 0
  /\ company = NoCompany
  /\ companyErrors = <<>>
  /\ files = {}
  /\ bse = BseIdle
  /\ nse = NseIdle
  /\ served = 0
  /\ faults = 0
  /\ iter = IterIdle
  /\ attempted = <<>>
  /\ fetched = <<>>
  /\ persisted = {}
  /\ extract = NoExtract
  /\ output = NoOutput
  /\ xfer = XferIdle
  /\ san = SanIdle

(* ------------------------------- main ---------------------------------- *)

\* main, up to the loop: read the worklist, check it.
Startup ==
  /\ pc = "start"
  /\ IF ~fileOk THEN pc' = "rejected" /\ idx' = idx
     ELSE IF Len(data) = 0 THEN pc' = "exit1" /\ idx' = idx
     ELSE IF ~hasSymbolKey THEN pc' = "exit1" /\ idx' = idx
     ELSE pc' = "loop" /\ idx' = 1
  /\ UNCHANGED << xfer, san, output, data, fileOk, hasSymbolKey, company, companyErrors, files,
                  bse, nse, served, faults, iter, attempted, fetched,
                  persisted, extract >>

\* How the process can end once main is over: "nonzero" after
\* process.exit(1) and after an uncaught exception, "zero" at the end of
\* main; a rejection of main is handled by main().catch(console.error), so
\* the exit code stays zero, and the browser that was launched and not
\* closed may keep the process alive ("alive").  Empty while main runs.
ExitOutcomes ==
  CASE pc = "exit1"    -> {"nonzero"}
    [] pc = "crashed"  -> {"nonzero"}
    [] pc = "rejected" -> {"zero", "alive"}
    [] pc = "hung"     -> {"alive"}
    [] pc = "done"     -> {"zero"}
    [] OTHER           -> {}

\* row[symbolKey] ? String(row[symbolKey]).trim() : null
RowSymbol(row) == IF row.symbol # <<>> THEN Trim(row.symbol) ELSE NULL

\* The iteration of the current row is over: main goes to the next row.
\* (The locals of the two scrapers are gone; the histories of the iteration
\* other than iter are cleared.)
NextRow(ce, it) ==
  /\ companyErrors' = ce
  /\ iter' = it
  /\ pc' = "loop"
  /\ idx' = idx + 1
  /\ bse' = BseIdle
  /\ nse' = NseIdle
  /\ fetched' = <<>>
  /\ persisted' = {}
  /\ extract' = NoExtract

\* Variant of MainAfterBse that calls the fallback whatever the primary
\* returned.
MainAfterBse_AlwaysFallback(ce, it, bseSuccess) ==
  /\ pc' = "nse_open"
  /\ companyErrors' = ce
  /\ iter' = it
  /\ bse' = BseIdle
  /\ UNCHANGED << idx, nse, fetched, persisted, extract >>

\* main after scrapeBseReports returned bseSuccess: call the fallback or go
\* to the next row.
MainAfterBse(ce, it, bseSuccess) ==
  IF bseSuccess
  THEN NextRow(ce, [it EXCEPT !.ended = "normal"])
  ELSE /\ pc' = "nse_open"
       /\ companyErrors' = ce
       /\ iter' = it
       /\ bse' = BseIdle
       /\ UNCHANGED << idx, nse, fetched, persisted, extract >>

\* main after scrapeNseAnnualReports returned nseSuccess.
MainAfterNse(ce, it, nseSuccess) ==
  NextRow(IF nseSuccess THEN ce
          ELSE AddError(ce, company.symbol, company.name,
                        Msg("NoReports", company.symbol)),
          [it EXCEPT !.ended = "normal"])

\* The catch of the iteration in main.
MainCatch(ce, it) ==
  NextRow(AddError(ce, company.symbol, company.name,
                   Msg("ErrorProcessing", company.symbol)),
          [it EXCEPT !.ended = "caught"])

\* Head of the loop over the rows; for a row with a symbol, the call of
\* scrapeBseReports up to its first status line.
MainRow ==
  /\ pc = "loop"
  /\ IF idx > Len(data)
     THEN /\ pc' = "report"
          /\ UNCHANGED << idx, company, companyErrors, iter, attempted >>
     ELSE LET symbol == RowSymbol(data[idx])
          IN  IF symbol = NULL \/ symbol = <<>>
              THEN /\ pc' = "loop"
                   /\ idx' = idx + 1
                   /\ UNCHANGED << company, companyErrors, iter, attempted >>
              ELSE /\ pc' = "bse_nav"
                   /\ idx' = idx
                   /\ company' = [symbol |-> symbol, name |-> data[idx].name]
                   /\ companyErrors' =
                        AddError(companyErrors, symbol, data[idx].name,
                                 Msg("TryingBSE", symbol))
                   /\ iter' = [IterIdle EXCEPT !.symbol = symbol]
                   /\ attempted' = Append(attempted, symbol)
  /\ UNCHANGED << xfer, san, output, data, fileOk, hasSymbolKey, files, bse, nse, served, faults,
                  fetched, persisted, extract >>

(* -------------------------- downloadFileWithSpeed --------------------- *)

\* Outcomes of a transfer that settles: the promise resolves ("ok"), or it
\* rejects on a status other than 200, a request error or a response error.
FetchOutcomes == {"ok", "status", "reqerror", "reserror"}

FetchResolved(outcome) == outcome = "ok"

\* The file system after downloadFileWithSpeed(url, dest): createWriteStream
\* creates dest, and no path of the function removes it.
FilesAfterFetch(fs, dest) == fs \cup {dest}

\* Ways of a transfer that never settles: no further event arrives and the
\* promise stays pending ("hang"; the request has no timeout), or the write
\* stream emits 'error', for which the function has no listener, and the
\* process ends with the uncaught exception ("crash").
FetchUnsettled == {"hang", "crash"}

\* main after a downloadFileWithSpeed call that never settles.
FetchNeverSettles(how) ==
  /\ pc' = (IF how = "crash" THEN "crashed" ELSE "hung")
  /\ UNCHANGED << idx, iter, bse, nse, fetched, persisted, extract >>

FetchCall(src, year, filename, outcome) ==
  [src |-> src, year |-> year, filename |-> filename,
   ok |-> FetchResolved(outcome)]

(* --------------------------- scrapeBseReports -------------------------- *)

\* scrapeBseReports returns result to main.
BseReturn(ce, it, result) ==
  MainAfterBse(ce, [it EXCEPT !.bseRet = IF result THEN "true" ELSE "false"],
               result)

\* The catch of scrapeBseReports: record the failure, return false.
BseCatch(ce, it) ==
  BseReturn(AddError(ce, company.symbol, company.name,
                     Msg("BseFailed", company.symbol)),
            it, FALSE)

\* Rows the sites may still serve.
RowsLeft == MaxRows - served

\* Outcomes of an operation that may throw: TRUE when it does not.
Outcomes(budget) == IF budget > 0 THEN BOOLEAN ELSE {TRUE}

FaultsLeft == MaxFaults - faults

Fault(ok) == IF ok THEN 0 ELSE 1

\* page.$$ of the table rows: rows.length is n, the header row included.
BseLoadRows(n, page, downloadedAny) ==
  /\ bse' = [n |-> n, i |-> 1, page |-> page, downloadedAny |-> downloadedAny]
  /\ served' = served + (IF n > 0 THEN n - 1 ELSE 0)
  /\ pc' = "bse_rows"
  /\ UNCHANGED << idx, companyErrors, iter, nse, fetched, persisted, extract >>

\* Search for the company and wait for the results table; then the first
\* call of extractAndDownloadReports reads the rows.
BseNavigate ==
  /\ pc = "bse_nav"
  /\ \E navigated \in BOOLEAN :
       IF navigated
       THEN \E n \in 0..(RowsLeft + 1) : BseLoadRows(n, 1, FALSE)
       ELSE /\ BseCatch(companyErrors, iter)
            /\ UNCHANGED served
  /\ UNCHANGED << xfer, san, output, data, fileOk, hasSymbolKey, company, files, faults,
                  attempted >>

\* Variant of BseRowSkipped without the isNaN test: NaN < 2009 is false.
BseRowSkipped_NoNaNTest(row) ==
  \/ row.cells < 2
  \/ NumLess(ParseInt(Trim(row.year)), MinYear)
  \/ row.link = "none"
  \/ row.link # "https"

\* A row of the results table is skipped before any download.
BseRowSkipped(row) ==
  \/ row.cells < 2
  \/ IsNaN(ParseInt(Trim(row.year)))
  \/ NumLess(ParseInt(Trim(row.year)), MinYear)
  \/ row.link = "none"
  \/ row.link # "https"

\* The filename of a BSE report.
BseFilename(symbol, year) == Sanitize(PdfName(symbol, year))

\* Variant of BseDownloadFailed that leaves the loop over the rows.
BseDownloadFailed_StopsLoop(ce, filename) ==
  /\ companyErrors' =
       AddError(ce, company.symbol, company.name, Msg("FailedBse", filename))
  /\ bse' = [bse EXCEPT !.i = bse.n]
  /\ UNCHANGED << pc, idx, iter, nse, persisted, extract >>

\* The catch of a failed BSE download: record it; the loop goes on.
BseDownloadFailed(ce, filename) ==
  /\ companyErrors' =
       AddError(ce, company.symbol, company.name, Msg("FailedBse", filename))
  /\ bse' = [bse EXCEPT !.i = @ + 1]
  /\ UNCHANGED << pc, idx, iter, nse, persisted, extract >>

\* The download of a BSE report resolved: downloadedAny = true.
BseDownloaded(ce, year, filename) ==
  /\ bse' = [bse EXCEPT !.i = @ + 1, !.downloadedAny = TRUE]
  /\ companyErrors' = ce
  /\ iter' = [iter EXCEPT !.bseOk = TRUE]
  /\ persisted' = persisted \cup
       {[symbol |-> company.symbol, year |-> year, name |-> filename,
         via |-> "bse"]}
  /\ UNCHANGED << pc, idx, nse, extract >>

\* One pass of the loop of extractAndDownloadReports over rows[i].
BseRow ==
  /\ pc = "bse_rows"
  /\ bse.i < bse.n
  /\ \/ \* a page call of the pass throws: the catch of scrapeBseReports
        /\ FaultsLeft > 0
        /\ faults' = faults + 1
        /\ BseCatch(companyErrors, iter)
        /\ UNCHANGED files
     \/ /\ UNCHANGED faults
        /\ \E row \in BseRowKinds :
             IF BseRowSkipped(row)
             THEN /\ bse' = [bse EXCEPT !.i = @ + 1]
                  /\ UNCHANGED << pc, idx, companyErrors, iter, nse, files,
                                  fetched, persisted, extract >>
             ELSE LET year     == Trim(row.year)
                      filename == BseFilename(company.symbol, year)
                      filepath == FilePath("BSE", company.symbol, filename)
                      ce1 == AddError(companyErrors, company.symbol,
                                      company.name,
                                      Msg("DownloadingBse", filename))
                  IN  /\ files' = FilesAfterFetch(files, filepath)
                      /\ \/ \E outcome \in FetchOutcomes :
                              /\ fetched' =
                                   Append(fetched,
                                          FetchCall("BSE", year, filename,
                                                    outcome))
                              /\ IF FetchResolved(outcome)
                                 THEN BseDownloaded(ce1, year, filename)
                                 ELSE BseDownloadFailed(ce1, filename)
                         \/ \E how \in FetchUnsettled :
                              /\ companyErrors' = ce1
                              /\ FetchNeverSettles(how)
  /\ UNCHANGED << xfer, san, output, data, fileOk, hasSymbolKey, company, served, attempted >>

\* After extractAndDownloadReports returned: the optional second page, and
\* the return of downloadedAny.
BseRowsDone ==
  /\ pc = "bse_rows"
  /\ bse.i >= bse.n
  /\ IF bse.page = 1
     THEN \E link \in {"none", "found", "throws"} :
            CASE link = "none" ->
                   /\ BseReturn(companyErrors, iter, bse.downloadedAny)
                   /\ UNCHANGED << served, faults >>
              [] link = "throws" ->
                   /\ FaultsLeft > 0
                   /\ faults' = faults + 1
                   /\ BseCatch(companyErrors, iter)
                   /\ UNCHANGED served
              [] link = "found" ->
                   /\ UNCHANGED faults
                   /\ \E navigated \in BOOLEAN :
                        IF navigated
                        THEN \E n \in 0..(RowsLeft + 1) :
                               BseLoadRows(n, 2, bse.downloadedAny)
                        ELSE /\ BseCatch(companyErrors, iter)
                             /\ UNCHANGED served
     ELSE /\ BseReturn(companyErrors, iter, bse.downloadedAny)
          /\ UNCHANGED << served, faults >>
  /\ UNCHANGED << xfer, san, output, data, fileOk, hasSymbolKey, company, files, attempted >>

(* ---------------------------- extractZipToPdf ------------------------- *)

IsPdfEntry(entryName) == EndsWith(ToLower(entryName), PdfExt)

\* Variant of ZipTooSmall that takes only an empty file for too small.
ZipTooSmall_EmptyOnly(size) == size = 0

\* stats.size < 1024
ZipTooSmall(size) == size < MinZipSize

\* What the file system and the archive library do during one call: the
\* outcome of statSync and the size it reports, of new AdmZip, the entries
\* of the archive, the outcome of writeFileSync and of unlinkSync.
ZipEnvs ==
  [ statOk : BOOLEAN, size : ZipSizes, openOk : BOOLEAN,
    entries : ZipEntryLists, writeOk : BOOLEAN, unlinkOk : BOOLEAN ]

\* Variant of ZipCatch without the try/catch of extractZipToPdf: the
\* exception leaves the function.
ZipCatch_Rethrows(ce, symbol, zipFile) == [ce |-> ce, raised |-> TRUE]

\* The catch of extractZipToPdf: the failure is recorded under the symbol,
\* with an empty name, and nothing is raised.
ZipCatch(ce, symbol, zipFile) ==
  [ ce     |-> AddError(ce, symbol, "", Msg("ZipError", zipFile.name)),
    raised |-> FALSE ]

\* extractZipToPdf(zipFilePath, folderPath, symbol, year) on the files fs and
\* the ledger ce.  The result holds the files and the ledger afterwards and
\* a record of the call: the size statSync reported (-1 when it threw),
\* whether the archive was handed to AdmZip (opened), whether a pdf was
\* written (wrote), the statement that threw (failure: "stat", "open",
\* "write", "unlink" or "none"), whether the call raised to its caller; and
\* the number of file system exceptions of the call.
ExtractZipToPdf(fs, ce, zipFile, symbol, year, env) ==
  LET outputFile == FilePath("NSE", symbol, PdfName(symbol, year))
      pdfs       == SelectSeq(env.entries, IsPdfEntry)
      log(size, opened, wrote) ==
        [ called |-> TRUE, zip |-> zipFile, size |-> size,
          opened |-> opened, wrote |-> wrote, raised |-> FALSE,
          failure |-> "none" ]
      caught(fs1, size, opened, wrote, fsFaults, failure) ==
        LET c == ZipCatch(ce, symbol, zipFile)
        IN  [ files |-> fs1,
              ce    |-> c.ce,
              log   |-> [log(size, opened, wrote) EXCEPT
                           !.raised = c.raised, !.failure = failure],
              faults |-> fsFaults ]
  IN  IF ~env.statOk THEN caught(fs, -1, FALSE, FALSE, 1, "stat")
      ELSE IF ZipTooSmall(env.size)
      THEN [files |-> fs, ce |-> ce, log |-> log(env.size, FALSE, FALSE),
            faults |-> 0]
      ELSE IF ~env.openOk THEN caught(fs, env.size, TRUE, FALSE, 0, "open")
      ELSE IF pdfs # <<>> /\ ~env.writeOk
      THEN caught(fs, env.size, TRUE, FALSE, 1, "write")
      ELSE LET fs1   == IF pdfs # <<>> THEN fs \cup {outputFile} ELSE fs
               wrote == pdfs # <<>>
           IN  IF env.unlinkOk
               THEN [files |-> fs1 \ {zipFile}, ce |-> ce,
                     log |-> log(env.size, TRUE, wrote), faults |-> 0]
               ELSE caught(fs1, env.size, TRUE, wrote, 1, "unlink")

(* ------------------------ scrapeNseAnnualReports ----------------------- *)

\* scrapeNseAnnualReports returns result to main.
NseReturn(ce, it, result) ==
  MainAfterNse(ce, [it EXCEPT !.nseRet = IF result THEN "true" ELSE "false"],
               result)

\* Variant of NseCatch without the try around page.screenshot: a failing
\* screenshot raises to main before page.close() is reached.
NseCatch_ScreenshotRaises(ce, it, before) ==
  LET ce1 == AddError(ce, company.symbol, company.name,
                      Msg("NseFailed", company.symbol))
  IN  \E screenshotOk \in BOOLEAN, closeOk \in Outcomes(FaultsLeft - before) :
        LET it1 == [it EXCEPT !.shot = IF screenshotOk THEN "ok" ELSE "failed",
                              !.closeThrew = screenshotOk /\ ~closeOk]
        IN  /\ faults' = faults + before + Fault(~screenshotOk \/ closeOk)
            /\ IF screenshotOk /\ closeOk
               THEN NseReturn(ce1, it1, FALSE)
               ELSE MainCatch(ce1, it1)

\* The catch of scrapeNseAnnualReports: record the failure, try a
\* screenshot (its failure is swallowed), close the page, return false.  A
\* failing page.close() raises to main.
NseCatch(ce, it, before) ==
  LET ce1 == AddError(ce, company.symbol, company.name,
                      Msg("NseFailed", company.symbol))
  IN  \E screenshotOk \in BOOLEAN, closeOk \in Outcomes(FaultsLeft - before) :
        LET it1 == [it EXCEPT !.shot = IF screenshotOk THEN "ok" ELSE "failed",
                              !.closeThrew = ~closeOk]
        IN  /\ faults' = faults + before + Fault(closeOk)
            /\ IF closeOk
               THEN NseReturn(ce1, it1, FALSE)
               ELSE MainCatch(ce1, it1)

\* The call of scrapeNseAnnualReports up to the table of the panel.
NseOpen ==
  /\ pc = "nse_open"
  /\ LET it == [iter EXCEPT !.nseCalled = TRUE]
     IN  \E step \in {"newPageThrows", "navigationFails", "table"} :
           CASE step = "newPageThrows" ->
                  /\ FaultsLeft > 0
                  /\ faults' = faults + 1
                  /\ MainCatch(companyErrors, it)
                  /\ UNCHANGED served
             [] step = "navigationFails" ->
                  /\ NseCatch(companyErrors, it, 0)
                  /\ UNCHANGED served
             [] step = "table" ->
                  /\ UNCHANGED faults
                  /\ \E k \in 0..RowsLeft :
                       /\ nse' = [left |-> k, reportRows |-> <<>>, j |-> 1]
                       /\ served' = served + k
                  /\ pc' = "nse_scan"
                  /\ iter' = it
                  /\ UNCHANGED << idx, companyErrors, bse, fetched, persisted,
                                  extract >>
  /\ UNCHANGED << xfer, san, output, data, fileOk, hasSymbolKey, company, files, attempted >>

\* The map callback of $$eval: year, url and type of a table row.
NseMapRow(raw) ==
  LET u == IF raw.url = NULL THEN NULL ELSE ToLower(raw.url)
  IN  [ year |-> IF raw.year = NULL THEN NULL ELSE Trim(raw.year),
        url  |-> raw.url,
        type |-> IF u = NULL THEN NoType
                 ELSE IF EndsWith(u, ZipExt) THEN "zip"
                 ELSE IF EndsWith(u, PdfExt) THEN "pdf"
                 ELSE NoType ]

\* The filter callback of $$eval.
NseKeepRow(r) ==
  /\ r.url # NULL
  /\ r.year # NULL
  /\ r.year # <<>>
  /\ r.type # NoType
  /\ ~IsNaN(ParseInt(r.year))
  /\ NumAtLeast(ParseInt(r.year), MinYear)

\* $$eval maps and filters one more row of the table.
NseScan ==
  /\ pc = "nse_scan"
  /\ nse.left > 0
  /\ \E raw \in NseRawRows :
       LET r == NseMapRow(raw)
       IN  nse' = [nse EXCEPT !.left = @ - 1,
                              !.reportRows = IF NseKeepRow(r) THEN Append(@, r)
                                             ELSE @]
  /\ UNCHANGED << xfer, san, output, data, fileOk, hasSymbolKey, pc, idx, company, companyErrors,
                  files, bse, served, faults, iter, attempted, fetched,
                  persisted, extract >>

\* reportRows.length === 0: close the page and return false.
NseScanned ==
  /\ pc = "nse_scan"
  /\ nse.left = 0
  /\ IF Len(nse.reportRows) = 0
     THEN \E closeOk \in Outcomes(FaultsLeft) :
            IF closeOk
            THEN NseReturn(companyErrors, iter, FALSE) /\ UNCHANGED faults
            ELSE NseCatch(companyErrors, iter, 1)
     ELSE /\ pc' = "nse_loop"
          /\ UNCHANGED << idx, companyErrors, iter, bse, nse, faults, fetched,
                          persisted, extract >>
  /\ UNCHANGED << xfer, san, output, data, fileOk, hasSymbolKey, company, files, served,
                  attempted >>

\* The filename of an NSE download.
NseFilename(symbol, year, type) == Sanitize(TypedName(symbol, year, type))

\* The name the fallback gives a downloaded pdf.
NseNewPdfName(symbol, year) == PdfName(symbol, year)

\* The catch of the loop over reportRows: record the failure of the
\* download, of the extraction or of the rename; the loop goes on.
NseReportFailed(ce, filename) ==
  companyErrors' =
    AddError(ce, company.symbol, company.name, Msg("NseDownloadError", filename))

\* One pass of the loop over reportRows: download, then extract or rename.
NseReport ==
  /\ pc = "nse_loop"
  /\ nse.j <= Len(nse.reportRows)
  /\ LET report   == nse.reportRows[nse.j]
         toYear   == report.year
         symbol   == company.symbol
         filename == NseFilename(symbol, toYear, report.type)
         destPath == FilePath("NSE", symbol, filename)
         fs0      == FilesAfterFetch(files, destPath)
         doc(name, via) ==
           [symbol |-> symbol, year |-> toYear, name |-> name, via |-> via]
     IN  \/ \E how \in FetchUnsettled :
              /\ files' = fs0
              /\ FetchNeverSettles(how)
              /\ UNCHANGED << companyErrors, faults >>
         \/ \E outcome \in FetchOutcomes :
           /\ nse' = [nse EXCEPT !.j = @ + 1]
           /\ UNCHANGED << pc, bse >>
           /\ fetched' = Append(fetched,
                                FetchCall("NSE", toYear, filename, outcome))
           /\ IF ~FetchResolved(outcome)
              THEN /\ files' = fs0
                   /\ NseReportFailed(companyErrors, filename)
                   /\ iter' = iter
                   /\ persisted' = persisted
                   /\ extract' = NoExtract
                   /\ UNCHANGED faults
              ELSE /\ iter' = [iter EXCEPT !.nseOk = TRUE]
                   /\ IF report.type = "zip"
                      THEN \E env \in ZipEnvs :
                             LET res == ExtractZipToPdf(fs0, companyErrors,
                                          destPath, symbol, toYear, env)
                             IN  /\ res.faults <= FaultsLeft
                                 /\ faults' = faults + res.faults
                                 /\ files' = res.files
                                 /\ IF res.log.raised
                                    THEN NseReportFailed(res.ce, filename)
                                    ELSE companyErrors' = res.ce
                                 /\ extract' = res.log
                                 /\ persisted' =
                                      IF res.log.wrote
                                      THEN persisted \cup
                                           {doc(PdfName(symbol, toYear), "zip")}
                                      ELSE persisted
                      ELSE LET newPdfName == NseNewPdfName(symbol, toYear)
                               newPdfPath == FilePath("NSE", symbol, newPdfName)
                           IN  /\ extract' = NoExtract
                               /\ IF filename # newPdfName
                                  THEN \E renamed \in Outcomes(FaultsLeft) :
                                         /\ faults' = faults + Fault(renamed)
                                         /\ IF renamed
                                            THEN /\ files' =
                                                      (fs0 \ {destPath})
                                                        \cup {newPdfPath}
                                                 /\ companyErrors' =
                                                      companyErrors
                                                 /\ persisted' =
                                                      persisted \cup
                                                      {doc(newPdfName, "rename")}
                                            ELSE /\ files' = fs0
                                                 /\ NseReportFailed(
                                                      companyErrors, filename)
                                                 /\ persisted' =
                                                      persisted \cup
                                                      {doc(filename, "nse")}
                                  ELSE /\ files' = fs0
                                       /\ companyErrors' = companyErrors
                                       /\ persisted' = persisted \cup
                                            {doc(filename, "nse")}
                                       /\ UNCHANGED faults
  /\ UNCHANGED << xfer, san, output, data, fileOk, hasSymbolKey, idx, company,
                  served, attempted >>

\* After the loop: close the page and return true.
NseDone ==
  /\ pc = "nse_loop"
  /\ nse.j > Len(nse.reportRows)
  /\ \E closeOk \in Outcomes(FaultsLeft) :
       IF closeOk
       THEN NseReturn(companyErrors, iter, TRUE) /\ UNCHANGED faults
       ELSE NseCatch(companyErrors, iter, 1)
  /\ UNCHANGED << xfer, san, output, data, fileOk, hasSymbolKey, company, files, served,
                  attempted >>

(* ----------------------------- end of main ----------------------------- *)

\* Object.keys(companyErrors).length > 0
ReportNeeded_OnlyFailures(ce) ==
  \E s \in DOMAIN ce :
    \E k \in 1..Len(ce[s].errors) :
      ce[s].errors[k].kind \notin {"TryingBSE", "DownloadingBse"}

\* Object.keys(companyErrors).length > 0
ReportNeeded(ce) == DOMAIN ce # {}

\* The rows of not_found_companies.xlsx: one per entry of the ledger.
ReportRows(ce) ==
  { [ Symbol |-> s, CompanyName |-> ce[s].name, Messages |-> ce[s].errors ] :
      s \in DOMAIN ce }

\* The report of the ledger and the end of the run: the report file when the
\* ledger has an entry (a failing XLSX.writeFile is caught and logged), the
\* summary 'All companies have reports on BSE or NSE.' otherwise.
Report ==
  /\ pc = "report"
  /\ pc' = "done"
  /\ IF ReportNeeded(companyErrors)
     THEN \E written \in Outcomes(FaultsLeft) :
            /\ faults' = faults + Fault(written)
            /\ output' = [ kind |-> IF written THEN "written"
                                               ELSE "writeFailed",
                           rows |-> ReportRows(companyErrors) ]
     ELSE /\ output' = [kind |-> "allHaveReports", rows |-> {}]
          /\ UNCHANGED faults
  /\ UNCHANGED << xfer, san, data, fileOk, hasSymbolKey, idx, company,
                  companyErrors, files, bse, nse, served, iter, attempted,
                  fetched, persisted, extract >>

Next ==
  \/ Startup
  \/ MainRow
  \/ BseNavigate
  \/ BseRow
  \/ BseRowsDone
  \/ NseOpen
  \/ NseScan
  \/ NseScanned
  \/ NseReport
  \/ NseDone
  \/ Report

Spec == Init /\ [][Next]_vars

\* The runs over a worklist of one row.
InitCompany == Init /\ Len(data) = 1

SpecCompany == InitCompany /\ [][Next]_vars

(* ------------------- downloadFileWithSpeed, step by step --------------- *)

\* Status codes of the responses: the one the function accepts and one it
\* does not.
HttpStatuses == {StatusOk, 404}

\* reject(err): a promise settles once.
Reject(x, reason) ==
  IF x.promise = "pending"
  THEN [x EXCEPT !.promise = "rejected", !.reason = reason]
  ELSE x

\* resolve(): a promise settles once.
Resolve(x) ==
  IF x.promise = "pending" THEN [x EXCEPT !.promise = "resolved"] ELSE x

\* Variant of OnResponse without the test of the status code.
OnResponse_NoStatusCheck(x, status) ==
  [x EXCEPT !.status = status, !.response = "flowing", !.timer = TRUE]

\* The callback of https.get: reject on a status other than 200; otherwise
\* start the speed interval, pipe the response to the file and listen.
OnResponse(x, status) ==
  IF status # StatusOk
  THEN Reject([x EXCEPT !.status = status, !.response = "refused"], "status")
  ELSE [x EXCEPT !.status = status, !.response = "flowing", !.timer = TRUE]

\* response.on('data'): count the bytes.
OnData(x) == [x EXCEPT !.downloadedBytes = @ + 1]

\* The callback of setInterval, for the interval of the call in progress
\* and for those of earlier calls: print the speed.
OnTick(x) ==
  [x EXCEPT !.stdout = "speed",
            !.lastDownloadedBytes = IF x.timer THEN x.downloadedBytes ELSE @]

\* file.on('finish'): clear the interval, print, close the file and resolve.
OnFileFinish(x) ==
  Resolve([x EXCEPT !.timer = FALSE, !.stdout = "complete",
                    !.file = "closed"])

\* response.on('error'): clear the interval and reject.
OnResponseError(x) ==
  Reject([x EXCEPT !.timer = FALSE, !.response = "errored"], "reserror")

\* request.on('error'): reject.  The response, if it began, gets no more
\* data.
OnRequestError(x) ==
  Reject([x EXCEPT !.request = "errored",
                   !.response = IF @ = "none" THEN "none" ELSE "aborted"],
         "reqerror")

\* The variables of main that a step of a transfer leaves alone.
FetchFrame ==
  UNCHANGED << san, output, data, fileOk, hasSymbolKey, idx, company, nse,
               served, faults, attempted, extract >>

\* An event of the transfer in progress that the caller does not see yet.
FetchEvent(x) ==
  /\ xfer' = x
  /\ FetchFrame
  /\ UNCHANGED << pc, companyErrors, files, bse, iter, fetched, persisted >>

\* The call is in progress: the caller awaits its promise.
Awaiting == pc = "bse_rows" /\ xfer.promise # "none"

\* The loop of extractAndDownloadReports reaches a row that passes its
\* tests: the status line, then the call of downloadFileWithSpeed, which
\* creates the write stream and sends the request.
FetchStart ==
  /\ pc = "bse_rows"
  /\ xfer.promise = "none"
  /\ bse.i < bse.n
  /\ \E row \in BseRowKinds :
       /\ ~BseRowSkipped(row)
       /\ LET year     == Trim(row.year)
              filename == BseFilename(company.symbol, year)
              filepath == FilePath("BSE", company.symbol, filename)
          IN  /\ companyErrors' =
                   AddError(companyErrors, company.symbol, company.name,
                            Msg("DownloadingBse", filename))
              /\ files' = FilesAfterFetch(files, filepath)
              /\ xfer' = [XferIdle EXCEPT !.promise = "pending",
                                          !.request = "sent",
                                          !.file = "open",
                                          !.leaked = xfer.leaked,
                                          !.stdout = xfer.stdout,
                                          !.year = year,
                                          !.filename = filename]
  /\ FetchFrame
  /\ UNCHANGED << pc, bse, iter, fetched, persisted >>

\* The response arrives.
ResponseArrives ==
  /\ Awaiting
  /\ xfer.request = "sent"
  /\ xfer.response = "none"
  /\ \E status \in HttpStatuses : FetchEvent(OnResponse(xfer, status))

\* A chunk of the body arrives.
ResponseData ==
  /\ Awaiting
  /\ xfer.response = "flowing"
  /\ xfer.downloadedBytes < MaxChunks
  /\ FetchEvent(OnData(xfer))

\* The body is complete: the pipe ends the write stream.
ResponseEnds ==
  /\ Awaiting
  /\ xfer.response = "flowing"
  /\ FetchEvent([xfer EXCEPT !.response = "ended", !.request = "done",
                             !.file = "ending"])

\* The write stream has flushed its data.
FileFinish ==
  /\ Awaiting
  /\ xfer.file = "ending"
  /\ FetchEvent(OnFileFinish(xfer))

\* The response emits 'error': on its own, or after the request did when
\* the runtime reports the broken connection on the response too.
ResponseError ==
  /\ Awaiting
  /\ xfer.response \in {"flowing", "aborted"}
  /\ FetchEvent(OnResponseError(xfer))

\* The request emits 'error', before the response or during its body.
RequestError ==
  /\ Awaiting
  /\ xfer.request = "sent"
  /\ xfer.response \in {"none", "flowing"}
  /\ FetchEvent(OnRequestError(xfer))

\* The server sends nothing more, or the connection closes without an
\* 'error' event: no event of the transfer follows.
ResponseStalls ==
  /\ Awaiting
  /\ xfer.response = "flowing"
  /\ FetchEvent([xfer EXCEPT !.response = "stalled"])

\* The write stream emits 'error': nothing listens, the exception is
\* uncaught and the process ends.
FileError ==
  /\ Awaiting
  /\ xfer.promise = "pending"
  /\ xfer.file \in {"open", "ending"}
  /\ FetchNeverSettles("crash")
  /\ FetchFrame
  /\ UNCHANGED << xfer, companyErrors, files >>

\* An interval fires.
TimerTick ==
  /\ pc = "bse_rows"
  /\ xfer.timer \/ xfer.leaked > 0
  /\ FetchEvent(OnTick(xfer))

\* The response of an earlier call, aborted by an error of its request,
\* emits 'error' after the caller went on: its interval is cleared.
LateResponseError ==
  /\ pc = "bse_rows"
  /\ xfer.leaked > 0
  /\ FetchEvent([xfer EXCEPT !.leaked = @ - 1])

\* The promise has settled: the caller's await returns or throws, and the
\* loop goes to the next row.  An interval that was not cleared stays.
FetchSettled ==
  /\ Awaiting
  /\ xfer.promise \in {"resolved", "rejected"}
  /\ LET outcome == IF xfer.promise = "resolved" THEN "ok" ELSE xfer.reason
     IN  /\ fetched' = Append(fetched, FetchCall("BSE", xfer.year,
                                                 xfer.filename, outcome))
         /\ IF FetchResolved(outcome)
            THEN BseDownloaded(companyErrors, xfer.year, xfer.filename)
            ELSE BseDownloadFailed(companyErrors, xfer.filename)
  /\ xfer' = [XferIdle EXCEPT
                !.leaked = xfer.leaked + (IF xfer.timer THEN 1 ELSE 0),
                !.stdout = xfer.stdout]
  /\ UNCHANGED files
  /\ UNCHANGED << san, output, data, fileOk, hasSymbolKey, company, served,
                  faults, attempted >>

\* scrapeBseReports has read a table of MaxRows rows below the header for
\* the company A of a worklist of one row.
InitFetch ==
  LET symbol == <<"A">>
  IN  /\ data = << [symbol |-> <<" ", "A">>, name |-> "Acme"] >>
      /\ fileOk = TRUE
      /\ hasSymbolKey = TRUE
      /\ pc = "bse_rows"
      /\ idx = 1
      /\ company = [symbol |-> symbol, name |-> "Acme"]
      /\ companyErrors =
           AddError(<<>>, symbol, "Acme", Msg("TryingBSE", symbol))
      /\ files = {}
      /\ bse = [n |-> MaxRows + 1, i |-> 1, page |-> 1,
                downloadedAny |-> FALSE]
      /\ nse = NseIdle
      /\ served = MaxRows
      /\ faults = 0
      /\ iter = [IterIdle EXCEPT !.symbol = symbol]
      /\ attempted = <<symbol>>
      /\ fetched = <<>>
      /\ persisted = {}
      /\ extract = NoExtract
      /\ output = NoOutput
      /\ xfer = XferIdle
      /\ san = SanIdle

NextFetch ==
  \/ FetchStart
  \/ ResponseArrives
  \/ ResponseData
  \/ ResponseEnds
  \/ FileFinish
  \/ ResponseError
  \/ RequestError
  \/ ResponseStalls
  \/ FileError
  \/ TimerTick
  \/ LateResponseError
  \/ FetchSettled

SpecFetch == InitFetch /\ [][NextFetch]_vars

\* The steps of the program itself are taken when they can be: the event
\* loop runs the callbacks of the events that have arrived.  (The network
\* owes the program nothing: ResponseStalls is one of its choices.)
SpecFetchFair == SpecFetch /\ WF_vars(NextFetch)

(* ----------------------- the filename sanitisation --------------------- *)

\* Characters of the names: a letter, a blank and two of the characters
\* the sanitisation removes.
SanChars == {"a", " ", ":", "*"}

SanNames == SeqsUpTo(SanChars, MaxLen)

\* A name is about to be sanitised; main is not running.
InitSanitize ==
  /\ data = <<>>
  /\ fileOk = TRUE
  /\ hasSymbolKey = TRUE
  /\ pc = "sanitize"
  /\ idx = 0
  /\ company = NoCompany
  /\ companyErrors = <<>>
  /\ files = {}
  /\ bse = BseIdle
  /\ nse = NseIdle
  /\ served = 0
  /\ faults = 0
  /\ iter = IterIdle
  /\ attempted = <<>>
  /\ fetched = <<>>
  /\ persisted = {}
  /\ extract = NoExtract
  /\ output = NoOutput
  /\ xfer = XferIdle
  /\ san \in {[SanIdle EXCEPT !.name = n] : n \in SanNames}

\* filename = filename.replace(...).trim() on the name.
SanitizeOnce ==
  /\ pc = "sanitize"
  /\ san.step = 0
  /\ san' = [san EXCEPT !.once = Sanitize(san.name), !.step = 1]
  /\ UNCHANGED << xfer, output, data, fileOk, hasSymbolKey, pc, idx, company,
                  companyErrors, files, bse, nse, served, faults, iter,
                  attempted, fetched, persisted, extract >>

\* The same statement on its own result.
SanitizeAgain ==
  /\ pc = "sanitize"
  /\ san.step = 1
  /\ san' = [san EXCEPT !.twice = Sanitize(san.once), !.step = 2]
  /\ UNCHANGED << xfer, output, data, fileOk, hasSymbolKey, pc, idx, company,
                  companyErrors, files, bse, nse, served, faults, iter,
                  attempted, fetched, persisted, extract >>

NextSanitize == SanitizeOnce \/ SanitizeAgain

SpecSanitize == InitSanitize /\ [][NextSanitize]_vars

(* ------------------------------ properties ----------------------------- *)

\* The messages of the current iteration in the ledger entry of its symbol:
\* those from the last 'Trying BSE reports' line on.
IterMessages ==
  LET errs  == companyErrors[iter.symbol].errors
      start == CHOOSE k \in 1..Len(errs) :
                 /\ errs[k].kind = "TryingBSE"
                 /\ \A m \in (k + 1)..Len(errs) : errs[m].kind # "TryingBSE"
  IN  SubSeq(errs, start, Len(errs))

IterEnded == iter.ended # "no"

HasKind(msgs, kind) == \E k \in 1..Len(msgs) : msgs[k].kind = kind

\* The final states of the iteration that hold of it.
FinalStates ==
  (IF iter.bseRet = "true" THEN {"SatisfiedPrimary"} ELSE {})
  \cup (IF iter.nseRet = "true" THEN {"SatisfiedFallback"} ELSE {})
  \cup (IF iter.bseRet # "true" /\ iter.nseRet # "true"
        THEN {"Unsatisfied"} ELSE {})

\* C1: every iteration ends in exactly one of Satisfied-Primary,
\* Satisfied-Fallback and Unsatisfied, and when no document was downloaded
\* from either source the ledger entry of the symbol ends with the message
\* 'No reports found on BSE or NSE for <symbol>'.
C1_UnsatisfiedHasTerminalMessage ==
  IterEnded =>
    /\ Cardinality(FinalStates) = 1
    /\ (~iter.bseOk /\ ~iter.nseOk) =>
         IterMessages[Len(IterMessages)] = Msg("NoReports", iter.symbol)

\* C2: scrapeBseReports returns true exactly when a download of the
\* invocation resolved, also when a later step of the invocation fails.
C2_BseTrueIffDownloaded ==
  iter.bseRet # "none" => (iter.bseRet = "true" <=> iter.bseOk)

\* C3: scrapeNseAnnualReports returns true only if a download of one of
\* its references resolved.
C3_NseTrueOnlyIfDownloaded ==
  iter.nseRet = "true" => iter.nseOk

\* C4: the primary source is attempted first; the fallback is called if and
\* only if the primary returned not satisfied; when the primary is satisfied
\* the fallback is not called and no 'No reports found' line is appended.
C4_FallbackIffPrimaryUnsatisfied ==
  /\ iter.nseCalled => iter.bseRet = "false"
  /\ pc \in {"nse_open", "nse_scan", "nse_loop"} <=>
       (iter.bseRet = "false" /\ ~IterEnded /\ pc \notin {"hung", "crashed"})
  /\ (IterEnded /\ iter.bseRet = "false") => iter.nseCalled
  /\ iter.bseRet = "true" =>
       /\ ~iter.nseCalled
       /\ iter.nseRet = "none"
       /\ ~HasKind(IterMessages, "NoReports")

C4_Witness ==
  /\ IterEnded
  /\ iter.bseRet = "true"
  /\ HasKind(IterMessages, "FailedBse")

\* The symbols of the rows of the worklist that have one, in row order.
RECURSIVE SymbolsOf(_)
SymbolsOf(rows) ==
  IF rows = <<>> THEN <<>>
  ELSE LET symbol == RowSymbol(Head(rows))
       IN  (IF symbol = NULL \/ symbol = <<>> THEN <<>> ELSE <<symbol>>)
           \o SymbolsOf(Tail(rows))

\* C5: no failure while a company is processed aborts the run: the run is
\* abandoned (main rejects, the process ends or blocks for ever) only before
\* the loop, the companies are attempted in row order, each row with a
\* symbol before the loop passes it, and all of them when the report step
\* is reached.
C5_ErrorsNeverAbortTheRun ==
  /\ pc \in {"rejected", "hung", "crashed"} => idx = 0
  /\ pc \in {"bse_nav", "bse_rows", "nse_open", "nse_scan", "nse_loop"} =>
       attempted = SymbolsOf(SubSeq(data, 1, idx))
  /\ pc = "loop" => attempted = SymbolsOf(SubSeq(data, 1, idx - 1))
  /\ pc \in {"report", "done"} => attempted = SymbolsOf(data)

\* C6: every reference handed to downloadFileWithSpeed, by either source,
\* has a year that parses to a number and is at least 2009.
C6_FetchedYearsAtLeast2009 ==
  \A k \in 1..Len(fetched) :
    LET v == ParseInt(fetched[k].year)
    IN  ~v.nan /\ v.value >= MinYear

C6_Witness ==
  \E k, l \in 1..Len(fetched) :
    /\ fetched[k].src = "BSE"
    /\ fetched[l].src = "NSE"
    /\ ParseInt(fetched[k].year).value = MinYear

\* C7: when a download fails, a message naming the filename of the reference
\* is appended to the ledger entry of the company, and the loop goes on to
\* the next reference of the same rows; for both sources.
C7_FailedDownloadRecordedLoopGoesOn ==
  [][ (Len(fetched') = Len(fetched) + 1 /\ ~fetched'[Len(fetched')].ok) =>
        LET call == fetched'[Len(fetched')]
            errs == companyErrors'[company.symbol].errors
        IN  /\ Len(errs) > Len(companyErrors[company.symbol].errors)
            /\ errs[Len(errs)].arg = call.filename
            /\ errs[Len(errs)].kind =
                 (IF call.src = "BSE" THEN "FailedBse" ELSE "NseDownloadError")
            /\ pc' = pc
            /\ IF call.src = "BSE"
               THEN bse'.n = bse.n /\ bse'.i = bse.i + 1
               ELSE nse'.reportRows = nse.reportRows /\ nse'.j = nse.j + 1
    ]_vars

C7_Witness ==
  \E k \in 1..(Len(fetched) - 1) :
    /\ ~fetched[k].ok
    /\ fetched[k + 1].src = fetched[k].src

\* C8: every document the program persists has the name SYMBOL_YEAR.pdf
\* with the path-unsafe characters stripped.
C8_PersistedNamesSanitized ==
  \A d \in persisted : d.name = Sanitize(PdfName(d.symbol, d.year))

\* C9: an archive smaller than 1024 bytes is not handed to the extraction:
\* no archive is opened, no pdf is written, the archive stays in place.
C9_SmallArchiveNotExtracted ==
  (extract.called /\ extract.size >= 0 /\ extract.size < MinZipSize) =>
    /\ ~extract.opened
    /\ ~extract.wrote
    /\ extract.zip \in files

C9_Witness ==
  /\ extract.called
  /\ extract.size = MinZipSize - 1

\* C10: for an archive of at least 1024 bytes, the archive is gone when
\* extractZipToPdf returns, whether or not a pdf was extracted.
C10_ArchiveDeleted ==
  (extract.called /\ extract.size >= MinZipSize) => extract.zip \notin files

\* C11: extractZipToPdf never raises to its caller: when a statement of it
\* throws (statSync, new AdmZip, writeFileSync, unlinkSync), the call
\* appends one message naming the archive to the ledger entry of the symbol
\* and returns, and the loop over reportRows goes on to the next reference.
C11_ExtractNeverRaises ==
  [][ ( /\ pc = "nse_loop"
        /\ Len(fetched') = Len(fetched) + 1
        /\ extract'.called
        /\ extract'.failure # "none" ) =>
        LET before == companyErrors[company.symbol].errors
            after  == companyErrors'[company.symbol].errors
        IN  /\ ~extract'.raised
            /\ after = Append(before, Msg("ZipError", extract'.zip.name))
            /\ pc' = pc
            /\ nse'.reportRows = nse.reportRows
            /\ nse'.j = nse.j + 1
    ]_vars

C11_Witness ==
  /\ pc = "nse_loop"
  /\ extract.called
  /\ extract.failure = "unlink"
  /\ extract.wrote
  /\ nse.j = 2
  /\ Len(nse.reportRows) = 2

\* The messages of the ledger entry of the current symbol that name the
\* archive of the last extractZipToPdf call.
ArchiveMessages ==
  LET errs == companyErrors[company.symbol].errors
  IN  { k \in 1..Len(errs) :
          /\ errs[k].kind \in {"ZipError", "NseDownloadError"}
          /\ errs[k].arg = extract.zip.name }

\* C12: after extractZipToPdf handled an archive smaller than 1024 bytes,
\* or an archive without an entry ending in .pdf, the ledger entry of the
\* symbol holds a message for that archive.
C12_ArchiveErrorsRecorded ==
  ( /\ extract.called
    /\ \/ (extract.size >= 0 /\ extract.size < MinZipSize)
       \/ (extract.opened /\ ~extract.wrote /\ extract.failure = "none") ) =>
    ArchiveMessages # {}

\* C17: when the catch of scrapeNseAnnualReports runs, the message of the
\* original error is in the ledger whatever the screenshot does; a failing
\* screenshot adds no message and replaces none, and the function returns
\* false as it does after a screenshot that succeeded: main appends the
\* 'No reports found' line right after the message of the original error.
C17_ScreenshotFailureDoesNotMask ==
  (IterEnded /\ iter.shot # "none") =>
    LET msgs == IterMessages
        n    == Len(msgs)
    IN  /\ HasKind(msgs, "NseFailed")
        /\ ~iter.closeThrew =>
             /\ iter.nseRet = "false"
             /\ iter.ended = "normal"
             /\ n >= 2
             /\ msgs[n - 1] = Msg("NseFailed", iter.symbol)
             /\ msgs[n] = Msg("NoReports", iter.symbol)

C17_Witness ==
  /\ IterEnded
  /\ iter.shot = "failed"
  /\ iter.nseRet = "false"
  /\ faults = 0

\* The worklist cannot be read, has no row, or has no symbol column.
StartupError == ~fileOk \/ Len(data) = 0 \/ ~hasSymbolKey

\* C13: after a startup error the run is over with a non-zero exit status
\* and no company was handed to scrapeBseReports or scrapeNseAnnualReports.
C13_StartupErrorsExitNonZero ==
  (StartupError /\ pc # "start") =>
    /\ ExitOutcomes = {"nonzero"}
    /\ attempted = <<>>
    /\ ~iter.nseCalled

IsPrefix(a, b) == Len(a) <= Len(b) /\ SubSeq(b, 1, Len(a)) = a

\* C16: the ledger is append-only and keeps the order: in every step, every
\* entry stays, with its name, and its messages are a prefix of its messages
\* afterwards; a new entry has at least one message and belongs to the
\* company being processed, with the name given by its row.
C16_LedgerAppendOnly ==
  [][ /\ \A s \in DOMAIN companyErrors :
           /\ s \in DOMAIN companyErrors'
           /\ companyErrors'[s].name = companyErrors[s].name
           /\ IsPrefix(companyErrors[s].errors, companyErrors'[s].errors)
      /\ \A s \in DOMAIN companyErrors' \ DOMAIN companyErrors :
           /\ Len(companyErrors'[s].errors) = 1
           /\ s = company'.symbol
           /\ companyErrors'[s].name = company'.name
    ]_vars

C16_Witness ==
  /\ Cardinality(DOMAIN companyErrors) = 2
  /\ \E s \in DOMAIN companyErrors :
       /\ companyErrors[s].name = "Acme"
       /\ HasKind(companyErrors[s].errors, "ZipError")
       /\ Len(SelectSeq(companyErrors[s].errors,
                        LAMBDA m : m.kind = "TryingBSE")) = 1

\* The symbols that were handed to scrapeBseReports.
Processed == {attempted[k] : k \in 1..Len(attempted)}

\* C20: every symbol that was processed has an entry in the ledger, and the
\* first message of the entry is its 'Trying BSE reports' line, whatever the
\* outcome; so at the end of main the report has one row per processed
\* symbol (written unless XLSX.writeFile threw), and the summary 'All
\* companies have reports' appears only when no company was processed.
C20_EveryProcessedSymbolHasEntry ==
  /\ \A s \in Processed :
       /\ s \in DOMAIN companyErrors
       /\ companyErrors[s].errors[1] = Msg("TryingBSE", s)
  /\ pc = "done" =>
       /\ output.kind = "allHaveReports" <=> Processed = {}
       /\ output.kind \in {"allHaveReports", "written", "writeFailed"}
       /\ {r.Symbol : r \in output.rows} = Processed
       /\ Cardinality(output.rows) = Cardinality(Processed)

C20_Witness ==
  /\ pc = "done"
  /\ output.kind = "written"
  /\ Cardinality(output.rows) = 2
  /\ iter.bseRet = "true"
  /\ ~HasKind(companyErrors[iter.symbol].errors, "FailedBse")
  /\ Len(companyErrors[iter.symbol].errors) = 2

\* C15: the filename sanitisation is idempotent: sanitising a sanitised
\* name gives the same name.
C15_SanitizeIdempotent ==
  san.step = 2 => san.twice = san.once

C15_Witness ==
  /\ san.step = 2
  /\ san.name = <<":", " ", "a", "*">>
  /\ san.once = <<"a">>

\* The transfer in progress has seen a status other than 200, an 'error' of
\* the request or an 'error' of the response.
TransferFailed ==
  \/ xfer.status \notin {0, StatusOk}
  \/ xfer.request = "errored"
  \/ xfer.response = "errored"

\* C14: once the endpoint has answered with a status other than 200, or
\* the request or the response has emitted 'error', the promise of
\* downloadFileWithSpeed is rejected and never resolved, and the
\* destination file is still there; when the caller sees the rejection it
\* appends the failure of that filename to the ledger and goes to the next
\* row; every row gets one call, so no reference is retried.
C14_FailedTransferRejects ==
  /\ [](Awaiting /\ TransferFailed =>
          /\ xfer.promise = "rejected"
          /\ FilePath("BSE", company.symbol, xfer.filename) \in files)
  /\ [][ (xfer.promise = "rejected" /\ xfer'.promise = "none") =>
            LET errs == companyErrors[company.symbol].errors
            IN  /\ companyErrors'[company.symbol].errors =
                     Append(errs, Msg("FailedBse", xfer.filename))
                /\ fetched' = Append(fetched,
                                     [src |-> "BSE", year |-> xfer.year,
                                      filename |-> xfer.filename,
                                      ok |-> FALSE])
                /\ bse'.i = bse.i + 1
                /\ bse'.n = bse.n
                /\ bse'.downloadedAny = bse.downloadedAny
                /\ files' = files
      ]_vars
  /\ []((pc = "bse_rows" /\ xfer.promise = "none") =>
          Len(fetched) = bse.i - 1)

C14_Witness ==
  /\ Len(fetched) = 1
  /\ ~fetched[1].ok
  /\ xfer.promise = "rejected"
  /\ xfer.reason = "reqerror"
  /\ xfer.status = StatusOk
  /\ xfer.downloadedBytes > 0

\* C18: every call of downloadFileWithSpeed settles: a pending promise is
\* eventually resolved or rejected.
C18_EveryTransferSettles ==
  (xfer.promise = "pending") ~> (xfer.promise \in {"resolved", "rejected"})

\* C19: when the promise of a call has settled the speed interval of the
\* call is cleared, and no interval of an earlier call is active.
C19_TimerClearedWhenSettled ==
  /\ xfer.promise \in {"resolved", "rejected"} => ~xfer.timer
  /\ xfer.leaked = 0

====
